---- MODULE Spec2Model ----
(***************************************************************************)
(* Speculation Lifecycle Controller of react-precognition                  *)
(* (src/src/usePrecognition.ts) together with the part of the shared       *)
(* sampler it talks to (src/src/PrecognitionContext.tsx).                  *)
(*                                                                         *)
(* The hook keeps its data in refs (read and written synchronously) and in *)
(* React state (written by a setter, seen by closures only after the next  *)
(* render).  Both are state variables; `rendered` holds the values the     *)
(* closures of the last render captured.  Every handler of the hook is an  *)
(* operator from a controller record to a controller record, so that a     *)
(* handler that calls other handlers is their composition, in the order of *)
(* the code.  Scores are in thousandths (0.5 is 500).                      *)
(***************************************************************************)
EXTENDS Integers, Sequences, FiniteSets

VARIABLES
    statusRef,          \* statusRef.current
    status,             \* React state `status` (last value given to setStatus)
    result,             \* React state `result` (last value given to setResult)
    isEnvironmentSafe,  \* React state `isEnvironmentSafe`
    rendered,           \* the values of the last render: `status` (what the UI
                        \* shows), `result` (captured by commit) and
                        \* `isEnvironmentSafe` (captured by handleTick)
    shadowPromise,      \* shadowPromise.current: an invocation id or Null
    graceTimer,         \* graceTimer.current: a timer id or Null
    abortController,    \* abortController.current: an invocation id or Null
    isMounted,          \* isMounted.current
    promises,           \* every promise the action returned, by invocation id
    timers,             \* the timer ids the browser holds as pending
    subscribers,        \* subscribersRef.current: the registered handleTick closures
    envCheck,           \* "pending" until checkEnvironmentSafety() has resolved
    actionKind,         \* the caller's action: "void" (resolves with a falsy value)
                        \* or "data" (each invocation resolves with its own datum)
    commitRet,          \* what the last commit() call returned
    ev,                 \* history: the last event, its input and the state it met
    cancelled,          \* history: invocations in flight when a cancelling tick came
    mode,               \* environment: "free", or the regime a liveness claim assumes
    sampler,            \* the provider: the pointer kind, isEnabled.current, whether
                        \* the mousemove listener is registered (listening) and
                        \* whether the loop is scheduled (rAF)
    history,            \* historyRef.current: the samples, oldest first
    config,             \* the engine's config
    rect,               \* the rectangle of the target element
    intentScore,        \* what the last call of getIntentScore returned
    received,           \* history: every sample handleMouseMove was given, in order
    delivered           \* history: the calls of the last pass of the loop, by
                        \* callback: the histories it was called with

vars == << statusRef, status, result, isEnvironmentSafe, rendered, shadowPromise,
           graceTimer, abortController, isMounted, promises, timers, subscribers,
           envCheck, actionKind, commitRet, ev, cancelled, mode, sampler, history,
           config, rect, intentScore, received, delivered >>

----------------------------------------------------------------------------
(* Bounds and program constants *)

MaxInvocations == 2     \* invocations of the action in one behaviour
MaxTimers == 2          \* timer ids the browser hands out
MaxSamples == 1         \* pointer moves in one behaviour of the sampler
MaxHistory == 4         \* samples in a history given to the engine

sensitivity == 500      \* config.sensitivity, default 0.5
AbortRatioTenths == 4   \* abortThreshold = sensitivity * 0.4

abortThreshold == (sensitivity * AbortRatioTenths) \div 10

\* The scores a tick may compute: the two thresholds and their neighbours.
Scores == {abortThreshold - 1, abortThreshold, sensitivity, sensitivity + 1}

Null == 0
NullResult == "null"
\* What the action may resolve with: "falsy" stands for undefined, 0, "" or
\* false; a "data" action resolves with a datum of its own at every invocation.
Data == << "d1", "d2", "d3", "d4" >>
ResolvedValue(kind, p) == IF kind = "void" THEN "falsy" ELSE Data[p]
Truthy(v) == v \notin {NullResult, "falsy"}

TimerIds == 1 .. MaxTimers

bufferSize == 20        \* PrecognitionProvider's bufferSize, default 20

----------------------------------------------------------------------------
(* The controller as one record, and back *)

Cur ==
    [ statusRef |-> statusRef, status |-> status, result |-> result,
      shadowPromise |-> shadowPromise, graceTimer |-> graceTimer,
      abortController |-> abortController, isMounted |-> isMounted,
      promises |-> promises, timers |-> timers, subscribers |-> subscribers ]

Apply(s) ==
    /\ statusRef' = s.statusRef
    /\ status' = s.status
    /\ result' = s.result
    /\ shadowPromise' = s.shadowPromise
    /\ graceTimer' = s.graceTimer
    /\ abortController' = s.abortController
    /\ isMounted' = s.isMounted
    /\ promises' = s.promises
    /\ timers' = s.timers
    /\ subscribers' = s.subscribers

\* The last event: the operation, its input (a tick's score, the promise that
\* settled) and what it met (statusRef; for a tick, a pending timer).
Event(op, score, p) ==
    [ op |-> op, score |-> score, p |-> p, from |-> statusRef,
      armed |-> (op = "tick" /\ timers # {}) ]

----------------------------------------------------------------------------
(* Handlers of usePrecognition, as operators on the controller record *)

transitionTo(s, newStatus) ==
    [s EXCEPT !.statusRef = newStatus, !.status = newStatus]

setResult(s, data) == [s EXCEPT !.result = data]

\* actionRef.current(signal): a new pending promise with its own signal.
\* `chained` says whether triggerSpeculation attached .then/.catch to it.
InvokeAction(s, chained) ==
    [s EXCEPT !.promises = Append(@, [ state |-> "pending", value |-> NullResult,
                                       aborted |-> FALSE, chained |-> chained ])]

\* controller.abort() on the AbortController made for invocation c
abort(s, c) == [s EXCEPT !.promises[c].aborted = TRUE]

triggerSpeculation(s) ==
    IF s.shadowPromise # Null THEN s
    ELSE LET s1 == transitionTo(s, "speculating")
             s2 == InvokeAction(s1, TRUE)
             promise == Len(s2.promises)
         IN  [s2 EXCEPT !.abortController = promise, !.shadowPromise = promise]

\* Faulty variant of thenCallback: the guard on "committed" is missing.
thenCallback_NoCommittedGuard(s, promise, data) ==
    IF ~s.isMounted THEN s
    ELSE IF s.shadowPromise = promise
         THEN transitionTo(setResult(s, data), "ready")
         ELSE s

\* Faulty variant of thenCallback: the identity check of the promise is missing.
thenCallback_NoIdentityCheck(s, promise, data) ==
    IF ~s.isMounted THEN s
    ELSE LET s1 == setResult(s, data)
         IN  IF s1.statusRef # "committed" THEN transitionTo(s1, "ready") ELSE s1

\* promise.then((data) => ...)
thenCallback(s, promise, data) ==
    IF ~s.isMounted THEN s
    ELSE IF s.shadowPromise = promise
         THEN LET s1 == setResult(s, data)
              IN  IF s1.statusRef # "committed" THEN transitionTo(s1, "ready") ELSE s1
         ELSE s

\* Faulty variant of catchCallback: the identity check of the promise is missing.
catchCallback_NoIdentityCheck(s, promise) ==
    IF s.isMounted
    THEN transitionTo([s EXCEPT !.shadowPromise = Null], "idle")
    ELSE s

\* Faulty variant of catchCallback: after the reset the action is tried again.
catchCallback_Retry(s, promise) ==
    IF s.isMounted /\ s.shadowPromise = promise
    THEN triggerSpeculation(transitionTo([s EXCEPT !.shadowPromise = Null], "idle"))
    ELSE s

\* .catch((err) => ...): the same for an AbortError and for any other error
catchCallback(s, promise) ==
    IF s.isMounted /\ s.shadowPromise = promise
    THEN transitionTo([s EXCEPT !.shadowPromise = Null], "idle")
    ELSE s

cancelSpeculation(s) ==
    LET s1 == IF s.abortController # Null
              THEN [abort(s, s.abortController) EXCEPT !.abortController = Null]
              ELSE s
        s2 == [s1 EXCEPT !.shadowPromise = Null]
    IN  transitionTo(s2, "idle")

\* window.setTimeout hands out an id no live reference holds (the least one).
FreeTimers(s) == {t \in TimerIds : t \notin s.timers /\ t # s.graceTimer}
setTimeout(s) ==
    LET t == CHOOSE x \in FreeTimers(s) : \A y \in FreeTimers(s) : x <= y
    IN  [s EXCEPT !.timers = @ \cup {t}, !.graceTimer = t]

clearTimeout(s, t) == [s EXCEPT !.timers = @ \ {t}]

\* Faulty variant of graceTimerCallback: the cached result is not reset.
graceTimerCallback_KeepsResult(s) ==
    LET s2 == [s EXCEPT !.shadowPromise = Null, !.graceTimer = Null]
    IN  transitionTo(s2, "idle")

\* the callback given to window.setTimeout in handleTick
graceTimerCallback(s) ==
    LET s1 == setResult(s, NullResult)
        s2 == [s1 EXCEPT !.shadowPromise = Null, !.graceTimer = Null]
    IN  transitionTo(s2, "idle")

\* Faulty variant of handleTickReady: the test of graceTimer.current before arming is
\* inverted, so no timer is ever armed.
handleTickReady_InvertedArmGuard(s, score) ==
    IF score < abortThreshold
    THEN IF s.graceTimer # Null THEN setTimeout(s) ELSE s
    ELSE IF s.graceTimer # Null
         THEN [clearTimeout(s, s.graceTimer) EXCEPT !.graceTimer = Null]
         ELSE s

\* Faulty variant of handleTickReady: the else branch that resets the decay timer is
\* missing.
handleTickReady_NoDisarm(s, score) ==
    IF score < abortThreshold
    THEN IF s.graceTimer = Null THEN setTimeout(s) ELSE s
    ELSE s

\* the `ready` branch of handleTick
handleTickReady(s, score) ==
    IF score < abortThreshold
    THEN IF s.graceTimer = Null THEN setTimeout(s) ELSE s
    ELSE IF s.graceTimer # Null
         THEN [clearTimeout(s, s.graceTimer) EXCEPT !.graceTimer = Null]
         ELSE s

\* The gate of handleTick: the target element exists and the closure's
\* isEnvironmentSafe is true.  Only then is a score computed.
tickGate(closure, targetPresent) == targetPresent /\ closure.isEnvironmentSafe

\* Faulty variant of handleTick: a score above sensitivity starts a speculation in
\* every status but committed and ready, replacing the one in flight.
handleTick_Retrigger(s, score) ==
    LET currentStatus == s.statusRef
    IN  IF currentStatus \in {"idle", "speculating"} /\ score > sensitivity
        THEN triggerSpeculation([s EXCEPT !.shadowPromise = Null])
        ELSE IF currentStatus = "speculating"
        THEN IF score < abortThreshold THEN cancelSpeculation(s) ELSE s
        ELSE IF currentStatus = "ready"
        THEN handleTickReady(s, score)
        ELSE s

\* Faulty variant of handleTick: the status is read from the last render (the
\* React state a closure captures) instead of statusRef.current.
handleTick_StaleStatus(s, score) ==
    LET currentStatus == rendered.status
    IN  IF currentStatus = "idle"
        THEN IF score > sensitivity THEN triggerSpeculation(s) ELSE s
        ELSE IF currentStatus = "speculating"
        THEN IF score < abortThreshold THEN cancelSpeculation(s) ELSE s
        ELSE IF currentStatus = "ready"
        THEN handleTickReady(s, score)
        ELSE s

\* Faulty variant of handleTick: only idle is told apart, so a low score cancels the
\* action in flight after a commit as well.
handleTick_CancelsAfterCommit(s, score) ==
    LET currentStatus == s.statusRef
    IN  IF currentStatus = "idle"
        THEN IF score > sensitivity THEN triggerSpeculation(s) ELSE s
        ELSE IF currentStatus = "ready"
        THEN handleTickReady(s, score)
        ELSE IF score < abortThreshold THEN cancelSpeculation(s) ELSE s

\* Faulty variant of handleTick: the comparisons include the thresholds, so a score
\* equal to sensitivity triggers and a score equal to abortThreshold cancels.
handleTick_InclusiveThresholds(s, score) ==
    LET currentStatus == s.statusRef
    IN  IF currentStatus = "idle"
        THEN IF score >= sensitivity THEN triggerSpeculation(s) ELSE s
        ELSE IF currentStatus = "speculating"
        THEN IF score <= abortThreshold THEN cancelSpeculation(s) ELSE s
        ELSE IF currentStatus = "ready"
        THEN handleTickReady(s, score)
        ELSE s

\* handleTick past its gate, with the score the engine returned
handleTick(s, score) ==
    LET currentStatus == s.statusRef
    IN  IF currentStatus = "idle"
        THEN IF score > sensitivity THEN triggerSpeculation(s) ELSE s
        ELSE IF currentStatus = "speculating"
        THEN IF score < abortThreshold THEN cancelSpeculation(s) ELSE s
        ELSE IF currentStatus = "ready"
        THEN handleTickReady(s, score)
        ELSE s

NoReturn == [kind |-> "none", v |-> NullResult, p |-> Null]

\* Faulty variant of commit: with nothing in flight it returns the captured result
\* instead of invoking the action.
commit_NoFreshInvocation(s, closureResult) ==
    IF s.shadowPromise # Null
    THEN [ st |-> transitionTo(s, "committed"),
           ret |-> [kind |-> "promise", v |-> NullResult, p |-> s.shadowPromise] ]
    ELSE [ st |-> transitionTo(s, "committed"),
           ret |-> [kind |-> "value", v |-> closureResult, p |-> Null] ]

\* Faulty variant of commit: the branch that returns the shadow promise is missing, so
\* a commit during a speculation invokes the action again.
commit_IgnoresShadowPromise(s, closureResult) ==
    IF s.statusRef = "ready" /\ Truthy(closureResult)
    THEN [ st |-> transitionTo(s, "committed"),
           ret |-> [kind |-> "value", v |-> closureResult, p |-> Null] ]
    ELSE LET s2 == InvokeAction(transitionTo(s, "committed"), FALSE)
         IN  [ st |-> s2,
               ret |-> [kind |-> "promise", v |-> NullResult, p |-> Len(s2.promises)] ]

\* commit(): the controller after the call and the value the call returns.
\* closureResult is the `result` the commit closure captured at the last render.
commit(s, closureResult) ==
    IF s.statusRef = "ready" /\ Truthy(closureResult)
    THEN [ st |-> transitionTo(s, "committed"),
           ret |-> [kind |-> "value", v |-> closureResult, p |-> Null] ]
    ELSE IF s.shadowPromise # Null
    THEN [ st |-> transitionTo(s, "committed"),
           ret |-> [kind |-> "promise", v |-> NullResult, p |-> s.shadowPromise] ]
    ELSE LET s1 == transitionTo(s, "committed")
             s2 == InvokeAction(s1, FALSE)
         IN  [ st |-> s2,
               ret |-> [kind |-> "promise", v |-> NullResult, p |-> Len(s2.promises)] ]

\* the registration effect: its body and its cleanup
effectSetup(s, closure) ==
    [s EXCEPT !.isMounted = TRUE, !.subscribers = @ \cup {closure}]

effectCleanup(s, closure) ==
    LET s1 == [s EXCEPT !.isMounted = FALSE, !.subscribers = @ \ {closure}]
        s2 == IF s1.graceTimer # Null THEN clearTimeout(s1, s1.graceTimer) ELSE s1
    IN  IF s2.abortController # Null THEN abort(s2, s2.abortController) ELSE s2

\* the handleTick closure of a render: what it captured
Closure(safe) == [isEnvironmentSafe |-> safe]

----------------------------------------------------------------------------
(* The provider (PrecognitionContext.tsx) *)

\* Faulty variant of providerEffect: on a coarse pointer isEnabled is cleared but the
\* effect does not return, so the listener and the loop start all the same.
providerEffect_NoEarlyReturn(coarse) ==
    [ coarse |-> coarse, isEnabled |-> ~coarse, listening |-> TRUE, rAF |-> TRUE ]

\* The provider's effect, in a browser: on a coarse pointer it clears
\* isEnabled.current and returns; otherwise it registers handleMouseMove and
\* schedules the loop.
providerEffect(coarse) ==
    IF coarse
    THEN [ coarse |-> TRUE, isEnabled |-> FALSE, listening |-> FALSE, rAF |-> FALSE ]
    ELSE [ coarse |-> FALSE, isEnabled |-> TRUE, listening |-> TRUE, rAF |-> TRUE ]

\* Faulty variant of handleMouseMove: the sample is pushed and nothing is shifted.
handleMouseMove_NoShift(h, sample) == Append(h, sample)

\* handleMouseMove: push the sample, shift the oldest once over bufferSize
handleMouseMove(h, sample) ==
    LET pushed == Append(h, sample)
    IN  IF Len(pushed) > bufferSize THEN Tail(pushed) ELSE pushed

\* The value of isEnabled the context gave the hook: isEnabled.current as read
\* when the provider rendered, which is before its effect ran.
isGlobalEnabled == TRUE

----------------------------------------------------------------------------
(* The intent scoring engine (vector-intent.ts).  Coordinates and timestamps
   are integers; a score is in thousandths (1.0 is 1000), noiseThreshold in
   hundredths of a pixel per millisecond, decelerationWeight in thousandths.
   Square roots and quotients are rounded down to the unit of their result. *)

NaN == 0 - 1            \* the score when the arithmetic yields NaN
NoScore == 0 - 2        \* no call of getIntentScore has returned yet

DEFAULT_CONFIG ==
    [ historySize |-> 6, noiseThreshold |-> 5, maxInfluenceDistance |-> 800,
      decelerationWeight |-> 300 ]

\* new VectorIntentEngine(config): the defaults, overridden field by field
VectorIntentEngine(overrides) ==
    [ f \in DOMAIN DEFAULT_CONFIG |->
        IF f \in DOMAIN overrides THEN overrides[f] ELSE DEFAULT_CONFIG[f] ]

\* the rectangle getBoundingClientRect() returns for an element at (x, y)
DOMRect(x, y, w, h) ==
    [ left |-> x, top |-> y, right |-> x + w, bottom |-> y + h,
      width |-> w, height |-> h ]

\* globalHistory.slice(-n): the trailing n samples; slice(-0) is slice(0), the
\* whole array
slice(h, n) ==
    IF n = 0 \/ n >= Len(h) THEN h ELSE SubSeq(h, Len(h) - n + 1, Len(h))

RECURSIVE SqrtIter(_, _, _)
SqrtIter(n, lo, hi) ==
    IF lo >= hi THEN lo
    ELSE LET mid == (lo + hi + 1) \div 2
         IN  IF mid * mid <= n THEN SqrtIter(n, mid, hi) ELSE SqrtIter(n, lo, mid - 1)

\* Math.sqrt, rounded down
Sqrt(n) == SqrtIter(n, 0, IF n < 46340 THEN n ELSE 46340)

\* Math.hypot(a, b) in hundredths
Hypot100(a, b) == Sqrt((a * a + b * b) * 10000)

Min(a, b) == IF a < b THEN a ELSE b
Max(a, b) == IF a > b THEN a ELSE b

\* Faulty variant of hitTest: the right and bottom edges are exclusive.
hitTest_Exclusive(targetRect, current) ==
    /\ current.x >= targetRect.left
    /\ current.x < targetRect.right
    /\ current.y >= targetRect.top
    /\ current.y < targetRect.bottom

\* 2. HIT TEST
hitTest(targetRect, current) ==
    /\ current.x >= targetRect.left
    /\ current.x <= targetRect.right
    /\ current.y >= targetRect.top
    /\ current.y <= targetRect.bottom

\* Faulty variant of physicsScore: the proximity gate is missing.
physicsScore_NoProximityGate(cfg, targetRect, relevantHistory) ==
    LET n == Len(relevantHistory)
        current == relevantHistory[n]
        dx2 == 2 * targetRect.left + targetRect.width - 2 * current.x
        dy2 == 2 * targetRect.top + targetRect.height - 2 * current.y
        dist2sq == dx2 * dx2 + dy2 * dy2
        maxD == cfg.maxInfluenceDistance
        startPoint == relevantHistory[1]
        midPoint == relevantHistory[(n \div 2) + 1]
        dt1 == midPoint.timestamp - startPoint.timestamp
        ax == midPoint.x - startPoint.x
        ay == midPoint.y - startPoint.y
        dt2 == current.timestamp - midPoint.timestamp
        bx == IF dt2 > 0 THEN current.x - midPoint.x ELSE 0
        by == IF dt2 > 0 THEN current.y - midPoint.y ELSE 0
        bsq == bx * bx + by * by
        nt == cfg.noiseThreshold
        noise == IF dt2 > 0 THEN 10000 * bsq < nt * nt * dt2 * dt2 ELSE nt > 0
        dot == bx * dx2 + by * dy2
        b100 == Hypot100(bx, by)
        d100 == Hypot100(dx2, dy2)
        alignment == (((dot * 10000) \div b100) * 1000) \div d100
        alignmentScore == (alignment * alignment * alignment) \div 1000000
        distanceScore == ((200 * maxD - d100) * 1000) \div (200 * maxD)
        slower == dt1 > 0 /\ dt2 > 0 /\ bsq * dt1 * dt1 < (ax * ax + ay * ay) * dt2 * dt2
        a100 == Hypot100(ax, ay)
        brakingRatio == ((a100 * dt2 - b100 * dt1) * 1000) \div (a100 * dt2)
        decelerationBonus ==
            IF slower /\ alignment > 800
            THEN (Min(brakingRatio, 1000) * cfg.decelerationWeight) \div 1000
            ELSE 0
        totalScore == (alignmentScore * distanceScore) \div 1000 + decelerationBonus
    IN  IF noise THEN 0
        ELSE IF bsq = 0 \/ dist2sq = 0 THEN NaN
        ELSE IF dot <= 0 THEN 0
        ELSE IF maxD = 0 THEN NaN
        ELSE Min(Max(totalScore, 0), 1000)

\* Faulty variant of physicsScore: the alignment score is not scaled by the distance
\* score.
physicsScore_NoDistanceFalloff(cfg, targetRect, relevantHistory) ==
    LET n == Len(relevantHistory)
        current == relevantHistory[n]
        dx2 == 2 * targetRect.left + targetRect.width - 2 * current.x
        dy2 == 2 * targetRect.top + targetRect.height - 2 * current.y
        dist2sq == dx2 * dx2 + dy2 * dy2
        maxD == cfg.maxInfluenceDistance
        startPoint == relevantHistory[1]
        midPoint == relevantHistory[(n \div 2) + 1]
        dt1 == midPoint.timestamp - startPoint.timestamp
        ax == midPoint.x - startPoint.x
        ay == midPoint.y - startPoint.y
        dt2 == current.timestamp - midPoint.timestamp
        bx == IF dt2 > 0 THEN current.x - midPoint.x ELSE 0
        by == IF dt2 > 0 THEN current.y - midPoint.y ELSE 0
        bsq == bx * bx + by * by
        nt == cfg.noiseThreshold
        \* speed2 < noiseThreshold
        noise == IF dt2 > 0 THEN 10000 * bsq < nt * nt * dt2 * dt2 ELSE nt > 0
        dot == bx * dx2 + by * dy2
        b100 == Hypot100(bx, by)
        d100 == Hypot100(dx2, dy2)
        alignment == (((dot * 10000) \div b100) * 1000) \div d100
        alignmentScore == (alignment * alignment * alignment) \div 1000000
        distanceScore == ((200 * maxD - d100) * 1000) \div (200 * maxD)
        \* speed2 < speed1
        slower == dt1 > 0 /\ dt2 > 0 /\ bsq * dt1 * dt1 < (ax * ax + ay * ay) * dt2 * dt2
        a100 == Hypot100(ax, ay)
        brakingRatio == ((a100 * dt2 - b100 * dt1) * 1000) \div (a100 * dt2)
        decelerationBonus ==
            IF slower /\ alignment > 800
            THEN (Min(brakingRatio, 1000) * cfg.decelerationWeight) \div 1000
            ELSE 0
        totalScore == alignmentScore + decelerationBonus
    IN  IF dist2sq > 4 * maxD * maxD THEN 0
        ELSE IF noise THEN 0
        ELSE IF bsq = 0 \/ dist2sq = 0 THEN NaN
        ELSE IF dot <= 0 THEN 0              \* alignment <= 0
        ELSE IF maxD = 0 THEN NaN
        ELSE Min(Max(totalScore, 0), 1000)

\* Steps 3 to 6 of getIntentScore, for a window of at least 3 samples whose
\* last sample is outside the target.  dx2, dy2 are twice dx, dy (the centre
\* may lie on a half pixel); the comparisons of distances and speeds are made
\* on squares, which is exact.
physicsScore(cfg, targetRect, relevantHistory) ==
    LET n == Len(relevantHistory)
        current == relevantHistory[n]
        dx2 == 2 * targetRect.left + targetRect.width - 2 * current.x
        dy2 == 2 * targetRect.top + targetRect.height - 2 * current.y
        dist2sq == dx2 * dx2 + dy2 * dy2
        maxD == cfg.maxInfluenceDistance
        startPoint == relevantHistory[1]
        midPoint == relevantHistory[(n \div 2) + 1]
        dt1 == midPoint.timestamp - startPoint.timestamp
        ax == midPoint.x - startPoint.x
        ay == midPoint.y - startPoint.y
        dt2 == current.timestamp - midPoint.timestamp
        bx == IF dt2 > 0 THEN current.x - midPoint.x ELSE 0
        by == IF dt2 > 0 THEN current.y - midPoint.y ELSE 0
        bsq == bx * bx + by * by
        nt == cfg.noiseThreshold
        \* speed2 < noiseThreshold
        noise == IF dt2 > 0 THEN 10000 * bsq < nt * nt * dt2 * dt2 ELSE nt > 0
        dot == bx * dx2 + by * dy2
        b100 == Hypot100(bx, by)
        d100 == Hypot100(dx2, dy2)
        alignment == (((dot * 10000) \div b100) * 1000) \div d100
        alignmentScore == (alignment * alignment * alignment) \div 1000000
        distanceScore == ((200 * maxD - d100) * 1000) \div (200 * maxD)
        \* speed2 < speed1
        slower == dt1 > 0 /\ dt2 > 0 /\ bsq * dt1 * dt1 < (ax * ax + ay * ay) * dt2 * dt2
        a100 == Hypot100(ax, ay)
        brakingRatio == ((a100 * dt2 - b100 * dt1) * 1000) \div (a100 * dt2)
        decelerationBonus ==
            IF slower /\ alignment > 800
            THEN (Min(brakingRatio, 1000) * cfg.decelerationWeight) \div 1000
            ELSE 0
        totalScore == (alignmentScore * distanceScore) \div 1000 + decelerationBonus
    IN  IF dist2sq > 4 * maxD * maxD THEN 0
        ELSE IF noise THEN 0
        ELSE IF bsq = 0 \/ dist2sq = 0 THEN NaN
        ELSE IF dot <= 0 THEN 0              \* alignment <= 0
        ELSE IF maxD = 0 THEN NaN
        ELSE Min(Max(totalScore, 0), 1000)

\* Faulty variant of getIntentScore: the hit test comes before the data sufficiency
\* check.
getIntentScore_HitTestFirst(cfg, targetRect, globalHistory) ==
    LET relevantHistory == slice(globalHistory, cfg.historySize)
    IN  IF relevantHistory # << >> /\ hitTest(targetRect, relevantHistory[Len(relevantHistory)])
        THEN 1000
        ELSE IF Len(relevantHistory) < 3 THEN 0
        ELSE physicsScore(cfg, targetRect, relevantHistory)

\* VectorIntentEngine.getIntentScore
getIntentScore(cfg, targetRect, globalHistory) ==
    LET relevantHistory == slice(globalHistory, cfg.historySize)
    IN  IF Len(relevantHistory) < 3 THEN 0
        ELSE IF hitTest(targetRect, relevantHistory[Len(relevantHistory)]) THEN 1000
        ELSE physicsScore(cfg, targetRect, relevantHistory)

----------------------------------------------------------------------------
(* Initial state: after the first render and its effects *)

InitHook ==
    /\ statusRef = "idle"
    /\ status = "idle"
    /\ result = NullResult
    /\ isEnvironmentSafe = TRUE
    /\ rendered = [status |-> "idle", result |-> NullResult, isEnvironmentSafe |-> TRUE]
    /\ shadowPromise = Null
    /\ graceTimer = Null
    /\ abortController = Null
    /\ isMounted = TRUE
    /\ promises = << >>
    /\ timers = {}
    /\ envCheck = "pending"
    /\ commitRet = NoReturn
    /\ ev = [ op |-> "init", score |-> 0, p |-> Null, from |-> "idle",
              armed |-> FALSE ]
    /\ cancelled = {}
    /\ mode = "free"

\* The hook has subscribed its handleTick; the provider's effect has run.
InitController ==
    /\ InitHook
    /\ subscribers = {Closure(TRUE)}
    /\ actionKind \in {"void", "data"}
    /\ sampler \in {providerEffect(coarse) : coarse \in BOOLEAN}

\* The controller's specification gives a tick its score and leaves the
\* engine's inputs alone.
Init ==
    /\ InitController
    /\ history = << >>
    /\ config = DEFAULT_CONFIG
    /\ rect = DOMRect(0, 0, 0, 0)
    /\ intentScore = NoScore
    /\ received = << >>
    /\ delivered = << >>

----------------------------------------------------------------------------
(* Actions *)

\* The model's bounds: a tick is taken only if the invocation or the timer it
\* may start fits.
TickFits(score) ==
    /\ (statusRef = "idle" /\ score > sensitivity) => Len(promises) < MaxInvocations
    /\ (statusRef = "ready" /\ score < abortThreshold /\ graceTimer = Null)
          => FreeTimers(Cur) # {}

\* One pass of the sampler's loop over the subscribers: the controller's
\* handleTick passes its gate and gets `score` from the engine.
Tick(closure, score) ==
    /\ sampler.rAF
    /\ closure \in subscribers
    /\ tickGate(closure, TRUE)
    /\ mode = "decay" => score < abortThreshold
    /\ TickFits(score)
    /\ ev' = Event("tick", score, Null)
    /\ Apply(handleTick(Cur, score))
    /\ cancelled' = IF statusRef = "speculating" /\ score < abortThreshold
                    THEN cancelled \cup {shadowPromise} ELSE cancelled
    /\ UNCHANGED << isEnvironmentSafe, rendered, envCheck, commitRet, mode, actionKind,
                    sampler, history, config, rect, intentScore, received, delivered >>

\* One pass of the loop in which handleTick returns at its gate.
GatedTick(closure, targetPresent) ==
    /\ sampler.rAF
    /\ closure \in subscribers
    /\ ~tickGate(closure, targetPresent)
    /\ mode # "decay"
    /\ ev' = Event("gated", 0, Null)
    /\ UNCHANGED << statusRef, status, result, isEnvironmentSafe, rendered,
                    shadowPromise, graceTimer, abortController, isMounted, promises,
                    timers, subscribers, envCheck, commitRet, cancelled, mode, actionKind,
                    sampler, history, config, rect, intentScore, received, delivered >>

Pending == {p \in 1 .. Len(promises) : promises[p].state = "pending"}

\* The action's promise p fulfils; its .then callback runs.
Resolve(p) ==
    /\ p \in Pending
    /\ LET data == ResolvedValue(actionKind, p)
           s0 == [Cur EXCEPT !.promises[p].state = "fulfilled",
                             !.promises[p].value = data]
       IN  Apply(IF promises[p].chained THEN thenCallback(s0, p, data) ELSE s0)
    /\ ev' = Event("resolve", 0, p)
    /\ UNCHANGED << isEnvironmentSafe, rendered, envCheck, commitRet, cancelled, mode, actionKind,
                    sampler, history, config, rect, intentScore, received, delivered >>

\* The action's promise p rejects; its .catch callback runs.
Reject(p) ==
    /\ p \in Pending
    /\ LET s0 == [Cur EXCEPT !.promises[p].state = "rejected"]
       IN  Apply(IF promises[p].chained THEN catchCallback(s0, p) ELSE s0)
    /\ ev' = Event("reject", 0, p)
    /\ UNCHANGED << isEnvironmentSafe, rendered, envCheck, commitRet, cancelled, mode, actionKind,
                    sampler, history, config, rect, intentScore, received, delivered >>

\* The browser fires pending timer t.
TimerFires(t) ==
    /\ t \in timers
    /\ ev' = Event("timer", 0, Null)
    /\ Apply(graceTimerCallback([Cur EXCEPT !.timers = @ \ {t}]))
    /\ UNCHANGED << isEnvironmentSafe, rendered, envCheck, commitRet, cancelled, mode, actionKind,
                    sampler, history, config, rect, intentScore, received, delivered >>

\* The caller calls the commit function of the last render.
Commit ==
    /\ mode = "free"
    /\ LET c == commit(Cur, rendered.result)
       IN  /\ Len(c.st.promises) <= MaxInvocations
           /\ Apply(c.st)
           /\ commitRet' = c.ret
    /\ ev' = Event("commit", 0, Null)
    /\ UNCHANGED << isEnvironmentSafe, rendered, envCheck, cancelled, mode, actionKind,
                    sampler, history, config, rect, intentScore, received, delivered >>

Snapshot == [status |-> status, result |-> result, isEnvironmentSafe |-> isEnvironmentSafe]

\* React renders the component; handleTick and subscribe are unchanged, so the
\* registration effect does not run again.
Render ==
    /\ isMounted
    /\ rendered # Snapshot
    /\ rendered.isEnvironmentSafe = isEnvironmentSafe
    /\ rendered' = Snapshot
    /\ ev' = Event("render", 0, Null)
    /\ UNCHANGED << statusRef, status, result, isEnvironmentSafe, shadowPromise,
                    graceTimer, abortController, isMounted, promises, timers,
                    subscribers, envCheck, commitRet, cancelled, mode, actionKind,
                    sampler, history, config, rect, intentScore, received, delivered >>

\* React renders the component after the provider rendered (a new `subscribe`)
\* or after isEnvironmentSafe changed (a new handleTick): the registration
\* effect is cleaned up and runs again.
Resubscribe ==
    /\ isMounted
    /\ mode = "free"
    /\ rendered' = Snapshot
    /\ Apply(effectSetup(effectCleanup(Cur, Closure(rendered.isEnvironmentSafe)),
                         Closure(isEnvironmentSafe)))
    /\ ev' = Event("resubscribe", 0, Null)
    /\ UNCHANGED << isEnvironmentSafe, envCheck, commitRet, cancelled, mode, actionKind,
                    sampler, history, config, rect, intentScore, received, delivered >>

\* The component unmounts: the registration effect is cleaned up.
Unmount ==
    /\ isMounted
    /\ mode = "free"
    /\ Apply(effectCleanup(Cur, Closure(rendered.isEnvironmentSafe)))
    /\ ev' = Event("unmount", 0, Null)
    /\ UNCHANGED << isEnvironmentSafe, rendered, envCheck, commitRet, cancelled, mode, actionKind,
                    sampler, history, config, rect, intentScore, received, delivered >>

\* checkEnvironmentSafety() resolves with `safe`.
EnvCheckResolves(safe) ==
    /\ envCheck = "pending"
    /\ envCheck' = "done"
    /\ isEnvironmentSafe' = (safe /\ isGlobalEnabled)
    /\ ev' = Event("envcheck", 0, Null)
    /\ UNCHANGED << statusRef, status, result, rendered, shadowPromise, graceTimer,
                    abortController, isMounted, promises, timers, subscribers,
                    commitRet, cancelled, mode, actionKind,
                    sampler, history, config, rect, intentScore, received, delivered >>

\* A pointer move: the browser calls handleMouseMove with the pointer's place
\* and performance.now().
MouseMove(x, y, now) ==
    /\ sampler.listening
    /\ history # << >> => now >= history[Len(history)].timestamp
    /\ history' = handleMouseMove(history, [x |-> x, y |-> y, timestamp |-> now])
    /\ received' = Append(received, [x |-> x, y |-> y, timestamp |-> now])
    /\ ev' = Event("mousemove", 0, Null)
    /\ UNCHANGED << statusRef, status, result, isEnvironmentSafe, rendered,
                    shadowPromise, graceTimer, abortController, isMounted, promises,
                    timers, subscribers, envCheck, commitRet, cancelled, mode,
                    actionKind, sampler, config, rect, intentScore, delivered >>

Next ==
    \/ \E closure \in subscribers, score \in Scores : Tick(closure, score)
    \/ \E closure \in subscribers, targetPresent \in BOOLEAN :
          GatedTick(closure, targetPresent)
    \/ \E p \in Pending : Resolve(p)
    \/ \E p \in Pending : Reject(p)
    \/ \E t \in timers : TimerFires(t)
    \/ Commit
    \/ Render
    \/ Resubscribe
    \/ Unmount
    \/ \E safe \in BOOLEAN : EnvCheckResolves(safe)

\* The controller under ticks whose scores are given: the buffer is not read.
Spec == Init /\ [][Next]_vars

\* The provider and the controller together: the pointer moves as well, one
\* millisecond apart.
NextSampler ==
    \/ Next
    \/ /\ Len(history) < MaxSamples
       /\ \E x \in {0}, y \in {0}, now \in {Len(history) + 1} : MouseMove(x, y, now)

SpecSampler == Init /\ [][NextSampler]_vars

----------------------------------------------------------------------------
(* The provider on its own (PrecognitionContext.tsx).  A callback is opaque
   to the provider, so callbacks are numbers here and a call is recorded by
   the history it was given.  performance.now() counts from the initial
   state: the samples the buffer holds by then have timestamps of 0 or
   less, a pointer move comes at 1 or later. *)

MaxMoves == 3           \* pointer moves in one behaviour of the provider
MaxCallbacks == 2       \* callbacks that subscribe in one behaviour

Callbacks == 1 .. MaxCallbacks

\* subscribe(callback): the Set gains the callback
subscribe(subs, callback) == subs \cup {callback}

\* Faulty variant of unsubscribe: the Set keeps the callback.
unsubscribe_KeepsCallback(subs, callback) == subs

\* the function subscribe(callback) returned: the Set loses the callback
unsubscribe(subs, callback) == subs \ {callback}

\* loop: forEach over the Set, each callback is called with historyRef.current
loop(subs, h) == [ callback \in subs |-> << h >> ]

\* k pointer moves before the initial state, one millisecond apart
Earlier(k) == [ i \in 1 .. k |-> [x |-> 0, y |-> 0, timestamp |-> i - k] ]

Moves == Cardinality({ i \in DOMAIN received : received[i].timestamp > 0 })

LastTimestamp == IF history = << >> THEN 0 ELSE history[Len(history)].timestamp

InitProvider ==
    /\ InitHook
    /\ subscribers = {}
    /\ actionKind = "void"
    /\ sampler \in {providerEffect(coarse) : coarse \in BOOLEAN}
    /\ \E k \in {0} \cup (bufferSize - 2 .. bufferSize) :
          /\ history = Earlier(k)
          /\ received = Earlier(k)
    /\ config = DEFAULT_CONFIG
    /\ rect = DOMRect(0, 0, 0, 0)
    /\ intentScore = NoScore
    /\ delivered = << >>

\* A component calls subscribe(callback).
Subscribe(callback) ==
    /\ subscribers' = subscribe(subscribers, callback)
    /\ ev' = Event("subscribe", 0, callback)
    /\ UNCHANGED << statusRef, status, result, isEnvironmentSafe, rendered,
                    shadowPromise, graceTimer, abortController, isMounted, promises,
                    timers, envCheck, actionKind, commitRet, cancelled, mode,
                    sampler, history, config, rect, intentScore, received, delivered >>

\* A component calls the function that subscribe(callback) returned to it.
Unsubscribe(callback) ==
    /\ callback \in subscribers \cup DOMAIN delivered
    /\ subscribers' = unsubscribe(subscribers, callback)
    /\ ev' = Event("unsubscribe", 0, callback)
    /\ UNCHANGED << statusRef, status, result, isEnvironmentSafe, rendered,
                    shadowPromise, graceTimer, abortController, isMounted, promises,
                    timers, envCheck, actionKind, commitRet, cancelled, mode,
                    sampler, history, config, rect, intentScore, received, delivered >>

\* An animation frame: the browser calls loop, which schedules itself again.
Loop ==
    /\ sampler.rAF
    /\ delivered' = loop(subscribers, history)
    /\ ev' = Event("loop", 0, Null)
    /\ UNCHANGED << statusRef, status, result, isEnvironmentSafe, rendered,
                    shadowPromise, graceTimer, abortController, isMounted, promises,
                    timers, subscribers, envCheck, actionKind, commitRet, cancelled,
                    mode, sampler, history, config, rect, intentScore, received >>

NextProvider ==
    \/ /\ Moves < MaxMoves
       /\ \E x \in {0}, y \in {0}, now \in {Max(LastTimestamp, 1), LastTimestamp + 1} :
             MouseMove(x, y, now)
    \/ \E callback \in Callbacks : Subscribe(callback)
    \/ \E callback \in Callbacks : Unsubscribe(callback)
    \/ Loop

SpecProvider == InitProvider /\ [][NextProvider]_vars

----------------------------------------------------------------------------
(* The regime of the decay claim: from the moment the controller became ready
   there is no commit and no cleanup of the registration ("quiet"), and from
   some tick on every tick delivers a score below abortThreshold ("decay").
   The guards on `mode` in the actions above enforce the regime. *)

EnterQuiet ==
    /\ mode = "free"
    /\ ev.op = "resolve" /\ ev.from = "speculating" /\ statusRef = "ready"
    /\ mode' = "quiet"
    /\ UNCHANGED << statusRef, status, result, isEnvironmentSafe, rendered,
                    shadowPromise, graceTimer, abortController, isMounted, promises,
                    timers, subscribers, envCheck, commitRet, ev, cancelled, actionKind,
                    sampler, history, config, rect, intentScore, received, delivered >>

EnterDecay ==
    /\ mode = "quiet"
    /\ statusRef = "ready"
    /\ subscribers = {Closure(TRUE)}
    /\ mode' = "decay"
    /\ UNCHANGED << statusRef, status, result, isEnvironmentSafe, rendered,
                    shadowPromise, graceTimer, abortController, isMounted, promises,
                    timers, subscribers, envCheck, commitRet, ev, cancelled, actionKind,
                    sampler, history, config, rect, intentScore, received, delivered >>

\* A pointer move changes the buffer only, which reaches the controller as the
\* score of a tick; the regime is stated on the scores.
NextDecay == Next \/ EnterQuiet \/ EnterDecay

\* The sampler's loop reschedules itself on every animation frame and the
\* browser fires every pending timer: both are weakly fair. The claim needs
\* the two only in the decay regime.
TickStep ==
    mode = "decay" /\ \E closure \in subscribers, score \in Scores : Tick(closure, score)
TimerStep == mode = "decay" /\ \E t \in timers : TimerFires(t)

SpecDecay == Init /\ [][NextDecay]_vars /\ WF_vars(TickStep) /\ WF_vars(TimerStep)

----------------------------------------------------------------------------
(* The engine on its own: the inputs of one call are drawn in the initial
   state, and the call stores what it returns. *)

\* Target rectangles: a 2 x 2 target, a target of no extent, a wide target.
Rects == { DOMRect(4, 2, 2, 2), DOMRect(4, 3, 0, 0), DOMRect(1, 1, 6, 4) }

\* Places of the pointer: on the line through the centre of the first target,
\* off it, on its edges and corners, inside it.
Points == { << 0, 3 >>, << 2, 3 >>, << 3, 3 >>, << 4, 3 >>, << 6, 4 >>, << 7, 3 >>,
            << 3, 0 >> }

\* Timestamps of the i-th sample: one frame apart, in pairs of equal stamps,
\* with growing gaps.
Timelines == {"steady", "paired", "slowing"}
Timestamp(timeline, i) ==
    IF timeline = "steady" THEN 16 * (i - 1)
    ELSE IF timeline = "paired" THEN 16 * ((i - 1) \div 2)
    ELSE 8 * i * (i - 1)

\* The histories of up to maxLen samples.
Histories(maxLen) ==
    UNION { { [ i \in 1 .. n |-> [ x |-> pts[i][1], y |-> pts[i][2],
                                   timestamp |-> Timestamp(tl, i) ] ] :
                pts \in [1 .. n -> Points], tl \in Timelines } :
            n \in 0 .. maxLen }

Configs ==
    { DEFAULT_CONFIG,
      VectorIntentEngine([historySize |-> 3, maxInfluenceDistance |-> 8]),
      VectorIntentEngine([historySize |-> 2]),
      VectorIntentEngine([historySize |-> 3, noiseThreshold |-> 0,
                          maxInfluenceDistance |-> 4]) }

\* The inputs of the engine's tests, in pixels: the target {200, 200, 300, 300}
\* and a target of the same centre that holds every sample below.
TestRects == { DOMRect(200, 200, 100, 100), DOMRect(0, 0, 500, 500) }

\* The samples at the given places, one frame (16 ms) apart.
Track(places) ==
    [ i \in 1 .. Len(places) |->
        [ x |-> places[i][1], y |-> places[i][2], timestamp |-> Timestamp("steady", i) ] ]

\* n samples that move by the step v straight at the centre (250, 250) of the
\* two targets, the last one k steps away from it.
Approach(n, k, v) ==
    Track([ i \in 1 .. n |->
              << 250 - (k + n - i) * v[1], 250 - (k + n - i) * v[2] >> ])

Approaches ==
    { Approach(n, k, v) : n \in 3 .. 4, k \in 2 .. 4,
                          v \in { << 50, 0 >>, << 30, 40 >>, << -40, 30 >> } }

\* The histories of the tests (toward the target at constant speed, away from
\* it), the steady approaches, and histories that brake on the way to the
\* centre, pass beside it, move across the direction to it, and rest.
TestHistories ==
    Approaches \cup
    { Track(<< << 0, 250 >>, << 50, 250 >>, << 100, 250 >> >>),
      Track(<< << 400, 250 >>, << 450, 250 >>, << 500, 250 >> >>),
      Track(<< << 0, 250 >>, << 25, 250 >>, << 50, 250 >>, << 75, 250 >> >>),
      Track(<< << 0, 250 >>, << 80, 250 >>, << 100, 250 >> >>),
      Track(<< << 0, 200 >>, << 50, 200 >>, << 100, 200 >> >>),
      Track(<< << 100, 150 >>, << 100, 200 >>, << 100, 250 >> >>),
      Track(<< << 100, 250 >>, << 100, 250 >>, << 100, 250 >> >>) }

\* The defaults, a short reach, a high noise threshold (5 px/ms), a window of
\* two samples, a window of three with a reach of 200 px, and a historySize of 0.
TestConfigs ==
    { DEFAULT_CONFIG,
      VectorIntentEngine([maxInfluenceDistance |-> 140]),
      VectorIntentEngine([noiseThreshold |-> 500]),
      VectorIntentEngine([historySize |-> 2]),
      VectorIntentEngine([historySize |-> 3, maxInfluenceDistance |-> 200]),
      VectorIntentEngine([historySize |-> 0]) }

InitEngine ==
    /\ InitController
    /\ actionKind = "void"
    /\ ~sampler.coarse
    /\ \/ /\ history \in Histories(MaxHistory)
          /\ config \in Configs
          /\ rect \in Rects
       \/ /\ history \in TestHistories
          /\ config \in TestConfigs
          /\ rect \in TestRects
    /\ intentScore = NoScore
    /\ received = << >>
    /\ delivered = << >>

\* engine.current.getIntentScore(rect, history)
GetIntentScore ==
    /\ intentScore = NoScore
    /\ intentScore' = getIntentScore(config, rect, history)
    /\ UNCHANGED << statusRef, status, result, isEnvironmentSafe, rendered,
                    shadowPromise, graceTimer, abortController, isMounted, promises,
                    timers, subscribers, envCheck, actionKind, commitRet, ev,
                    cancelled, mode, sampler, history, config, rect, received,
                    delivered >>

NextEngine == GetIntentScore

SpecEngine == InitEngine /\ [][NextEngine]_vars

----------------------------------------------------------------------------
(* Claims *)

\* The value commit() returned is the outcome of invocation p: the promise
\* itself, or the value p fulfilled with.
ReturnsOutcomeOf(ret, p) ==
    \/ ret.kind = "promise" /\ ret.p = p
    \/ ret.kind = "value" /\ promises[p].state = "fulfilled"
                          /\ ret.v = promises[p].value

\* C1: a tick with a score above sensitivity that finds the controller idle
\* with nothing in flight moves it to speculating and invokes the action
\* exactly once (the new promise becomes the shadow promise); a tick with a
\* score above sensitivity that finds it speculating invokes nothing and leaves
\* it speculating.
C1_HighTickSpeculatesOnce ==
    [][ (ev'.op = "tick" /\ ev'.score > sensitivity) =>
          /\ (statusRef = "idle" /\ shadowPromise = Null) =>
                /\ statusRef' = "speculating"
                /\ Len(promises') = Len(promises) + 1
                /\ shadowPromise' = Len(promises')
                /\ promises'[shadowPromise'].state = "pending"
          /\ statusRef = "speculating" =>
                /\ statusRef' = "speculating"
                /\ promises' = promises
                /\ shadowPromise' = shadowPromise ]_vars

\* C1 witness: a second high tick came while speculating and there is still
\* exactly one invocation.
C1_Witness ==
    /\ ev.op = "tick" /\ ev.score > sensitivity /\ ev.from = "speculating"
    /\ statusRef = "speculating" /\ Len(promises) = 1

\* C2: a tick with a score below abortThreshold that finds the controller
\* speculating aborts the signal of the in-flight action, clears the shadow
\* promise and sets the status to idle; the later rejection of an action
\* cancelled this way changes neither status, result nor shadow promise.
C2_LowTickCancels ==
    /\ [][ (ev'.op = "tick" /\ ev'.score < abortThreshold /\ statusRef = "speculating") =>
             /\ shadowPromise # Null
             /\ promises'[shadowPromise].aborted
             /\ shadowPromise' = Null
             /\ statusRef' = "idle" ]_vars
    /\ [][ (ev'.op = "reject" /\ ev'.p \in cancelled) =>
             UNCHANGED << statusRef, status, result, shadowPromise >> ]_vars

\* C2 witness: a cancelled action rejected while a newer speculation was in
\* flight, and that speculation is still the shadow promise.
C2_Witness ==
    /\ ev.op = "reject" /\ ev.p \in cancelled /\ promises[ev.p].aborted
    /\ statusRef = "speculating" /\ shadowPromise # Null /\ shadowPromise # ev.p

\* C3: commit() called while the status is ready sets the status to committed,
\* invokes nothing, and returns the value the speculative action (the shadow
\* promise) resolved with.
C3_CommitWhileReady ==
    [][ (ev'.op = "commit" /\ statusRef = "ready") =>
          /\ statusRef' = "committed"
          /\ promises' = promises
          /\ shadowPromise # Null
          /\ promises[shadowPromise].state = "fulfilled"
          /\ ReturnsOutcomeOf(commitRet', shadowPromise) ]_vars

\* C4: commit() called while idle with no shadow promise sets the status to
\* committed, invokes the action exactly once with a signal that is not
\* aborted, and returns the promise of that invocation.
C4_CommitWhileIdle ==
    [][ (ev'.op = "commit" /\ statusRef = "idle" /\ shadowPromise = Null) =>
          /\ statusRef' = "committed"
          /\ Len(promises') = Len(promises) + 1
          /\ SubSeq(promises', 1, Len(promises)) = promises
          /\ promises'[Len(promises')].state = "pending"
          /\ ~promises'[Len(promises')].aborted
          /\ commitRet'.kind = "promise" /\ commitRet'.p = Len(promises') ]_vars

C4_Witness ==
    /\ ev.op = "commit" /\ ev.from = "idle"
    /\ statusRef = "committed" /\ commitRet.kind = "promise"
    /\ commitRet.p = Len(promises) /\ ~promises[commitRet.p].chained

\* C5: commit() called while speculating sets the status to committed, invokes
\* nothing and returns the promise of the action in flight.
C5_CommitWhileSpeculating ==
    [][ (ev'.op = "commit" /\ statusRef = "speculating") =>
          /\ statusRef' = "committed"
          /\ promises' = promises
          /\ shadowPromise # Null
          /\ commitRet'.kind = "promise" /\ commitRet'.p = shadowPromise
          /\ shadowPromise' = shadowPromise ]_vars

C5_Witness ==
    /\ ev.op = "commit" /\ ev.from = "speculating"
    /\ statusRef = "committed" /\ commitRet.kind = "promise"
    /\ commitRet.p = shadowPromise /\ promises[shadowPromise].state = "pending"

\* C6 (as claimed): once the status is committed, no tick, settlement of the
\* action or firing of a grace timer changes it.
C6_CommittedIsTerminal ==
    [][ (statusRef = "committed"
            /\ ev'.op \in {"tick", "gated", "resolve", "reject", "timer"})
          => statusRef' = "committed" ]_vars

\* C7 (as claimed): when the shadow promise resolves while the status is
\* committed, the resolution stores the result and leaves the status committed.
C7_ResolveAfterCommitStores ==
    [][ (ev'.op = "resolve" /\ statusRef = "committed" /\ ev'.p = shadowPromise) =>
          /\ result' = promises'[ev'.p].value
          /\ statusRef' = "committed" ]_vars

\* C7 (amended): a speculative action that commit() returned while it was in
\* flight stays the shadow promise until it settles; when it resolves, the
\* status stays committed, and the resolution stores the result if the
\* controller is still mounted and leaves the result alone if it is not.  No
\* resolution that finds the status committed sets it to ready.
C7_ResolveAfterCommit ==
    /\ [](( /\ statusRef = "committed" /\ commitRet.kind = "promise"
            /\ commitRet.p \in Pending /\ promises[commitRet.p].chained )
          => shadowPromise = commitRet.p)
    /\ [][ (ev'.op = "resolve" /\ statusRef = "committed" /\ ev'.p = shadowPromise) =>
             /\ statusRef' = "committed"
             /\ isMounted => result' = promises'[ev'.p].value
             /\ ~isMounted => result' = result ]_vars
    /\ [][ (ev'.op = "resolve" /\ statusRef = "committed") => statusRef' # "ready" ]_vars

C7_Witness ==
    /\ ev.op = "resolve" /\ ev.from = "committed" /\ ev.p = shadowPromise
    /\ isMounted /\ statusRef = "committed"
    /\ result = promises[ev.p].value /\ result # NullResult
    /\ commitRet.kind = "promise" /\ commitRet.p = ev.p

\* C8 (as claimed): whenever a grace timer is pending the status is ready.
C8_TimerOnlyWhileReady == timers # {} => statusRef = "ready"

\* C9: in the decay regime (ready, no commit and no cleanup since, every tick
\* from now on below abortThreshold) the timer fires and the controller gets
\* to idle with the cached result null and the shadow promise cleared.
C9_DecayEvicts ==
    (mode = "decay") ~> (statusRef = "idle" /\ result = NullResult /\ shadowPromise = Null)

C9_Witness ==
    /\ mode = "decay" /\ ev.op = "timer" /\ ev.from = "ready"
    /\ statusRef = "idle" /\ result = NullResult /\ shadowPromise = Null

\* C10: a tick with a score at or above abortThreshold that finds the
\* controller ready with a timer pending disarms the timer (no timer is pending
\* afterwards, so it never fires) and keeps status, result and shadow promise;
\* and from ready with no timer pending, every step other than a commit or a
\* tick with a score below abortThreshold keeps the status ready, the cached
\* result and no timer pending.
C10_RecoveryDisarms ==
    /\ [][ (ev'.op = "tick" /\ ev'.score >= abortThreshold
              /\ statusRef = "ready" /\ timers # {}) =>
             /\ timers' = {}
             /\ graceTimer' = Null
             /\ statusRef' = "ready"
             /\ result' = result
             /\ shadowPromise' = shadowPromise ]_vars
    /\ [][ (statusRef = "ready" /\ timers = {}
              /\ ev'.op # "commit"
              /\ ~(ev'.op = "tick" /\ ev'.score < abortThreshold)) =>
             /\ statusRef' = "ready"
             /\ result' = result
             /\ timers' = {} ]_vars

C10_Witness ==
    /\ ev.op = "tick" /\ ev.score >= abortThreshold /\ ev.from = "ready" /\ ev.armed
    /\ statusRef = "ready" /\ timers = {} /\ graceTimer = Null
    /\ result = promises[shadowPromise].value

\* The invocations in flight: started, not cancelled (signal not aborted) and
\* not yet settled.
InFlight == {p \in Pending : ~promises[p].aborted}

\* C11 (as claimed): at every moment at most one invocation started by the
\* controller, by a tick or by commit(), is in flight; and a tick that finds a
\* shadow promise invokes nothing.
C11_AtMostOneInFlight ==
    /\ [](Cardinality(InFlight) <= 1)
    /\ [][ (ev'.op = "tick" /\ shadowPromise # Null) => promises' \in
             {promises, [promises EXCEPT ![shadowPromise].aborted = TRUE]} ]_vars

\* C12: when the shadow promise rejects while the controller is speculating
\* (registered, or with a signal nobody aborted, so that the error is not a
\* cancellation), the shadow promise is discarded, the status becomes idle and
\* nothing is invoked; and the only steps that ever invoke the action are a
\* tick with a score above sensitivity and commit().
C12_RejectionResetsNoRetry ==
    /\ [][ ( /\ ev'.op = "reject" /\ statusRef = "speculating"
             /\ ev'.p = shadowPromise
             /\ (isMounted \/ ~promises[ev'.p].aborted) ) =>
             /\ shadowPromise' = Null
             /\ statusRef' = "idle"
             /\ Len(promises') = Len(promises) ]_vars
    /\ [][ Len(promises') > Len(promises) =>
             \/ ev'.op = "commit"
             \/ ev'.op = "tick" /\ ev'.score > sensitivity ]_vars

\* C12 witness: a speculation whose signal was never aborted rejected; the
\* controller is idle with no shadow promise and the action ran only once.
C12_Witness ==
    /\ ev.op = "reject" /\ ev.from = "speculating"
    /\ promises[ev.p].chained /\ ~promises[ev.p].aborted
    /\ statusRef = "idle" /\ shadowPromise = Null /\ Len(promises) = 1

\* C13 (as claimed): the future commit() returned rejects only if its
\* invocation was started fresh by commit() (never with the failure of an
\* action a tick started); and a commit() that directly follows the failure of
\* the speculation in flight invokes the action afresh and returns that
\* invocation.
C13_SpeculativeFailureNotDelivered ==
    /\ []( (commitRet.kind = "promise" /\ promises[commitRet.p].state = "rejected")
             => ~promises[commitRet.p].chained )
    /\ [][ ( /\ ev'.op = "commit" /\ ev.op = "reject" /\ ev.from = "speculating"
             /\ promises[ev.p].chained /\ ev.p \notin cancelled /\ isMounted ) =>
             /\ Len(promises') = Len(promises) + 1
             /\ commitRet'.kind = "promise" /\ commitRet'.p = Len(promises')
             /\ ~promises'[commitRet'.p].chained ]_vars

\* C14 (as claimed): the cleanup of the registration aborts the signal of
\* every invocation that is in flight and leaves no timer pending; and while
\* the controller is torn down, no settlement of an action and no firing of a
\* timer changes its status or its result.
C14_TeardownReleases ==
    /\ [][ ev'.op = "unmount" =>
             /\ \A p \in Pending : promises'[p].aborted
             /\ timers' = {} ]_vars
    /\ [][ (~isMounted /\ ev'.op \in {"resolve", "reject", "timer"}) =>
             UNCHANGED << statusRef, status, result >> ]_vars

\* C15: the status a tick reads (statusRef.current) is always the target of
\* the last transition decided (the last value given to setStatus), whatever
\* the last render shows; and the first tick after the speculation resolved
\* is handled as ready: whatever its score, the status stays ready, the result
\* and the shadow promise are kept and no signal is aborted.
C15_TickReadsLatestStatus ==
    /\ [](statusRef = status)
    /\ [][ ( /\ ev'.op = "tick"
             /\ ev.op = "resolve" /\ ev.from = "speculating" /\ statusRef = "ready" ) =>
             /\ statusRef' = "ready"
             /\ result' = result
             /\ shadowPromise' = shadowPromise
             /\ \A p \in 1 .. Len(promises) : promises'[p].aborted = promises[p].aborted ]_vars

\* C15 witness: the last render still shows speculating; a tick with a low
\* score was handled as ready (it armed the grace timer) and the resolved
\* result is kept.
C15_Witness ==
    /\ ev.op = "tick" /\ ev.score < abortThreshold /\ ev.from = "ready"
    /\ rendered.status = "speculating" /\ statusRef = "ready"
    /\ shadowPromise # Null /\ result = promises[shadowPromise].value
    /\ ~promises[shadowPromise].aborted /\ timers # {}

\* C16 (as claimed): if the environment check yielded false, or the sampler's
\* isEnabled is false, no tick of the controller's life invoked the action,
\* the ticks before the check resolved included; and a tick that finds the gate
\* false changes neither status, shadow promise nor grace timer.
C16_UnsafeNeverSpeculates ==
    /\ []( ((envCheck = "done" /\ ~isEnvironmentSafe) \/ ~sampler.isEnabled)
             => \A p \in 1 .. Len(promises) : ~promises[p].chained )
    /\ [][ ev'.op = "gated" =>
             UNCHANGED << statusRef, status, shadowPromise, graceTimer, timers,
                          promises >> ]_vars

\* C17: on a coarse pointer the loop is never scheduled and the mousemove
\* listener never registered, so the buffer stays empty, no subscriber is ever
\* called (no tick reaches a handleTick, gated or not), no invocation was
\* started by a tick, and the only step that invokes the action is commit().
C17_CoarsePointerNoSpeculation ==
    /\ []( sampler.coarse =>
             /\ ~sampler.rAF /\ ~sampler.listening
             /\ history = << >>
             /\ \A p \in 1 .. Len(promises) : ~promises[p].chained )
    /\ [][ sampler.coarse => ev'.op \notin {"tick", "gated", "mousemove"} ]_vars
    /\ [][ (sampler.coarse /\ Len(promises') > Len(promises)) => ev'.op = "commit" ]_vars

\* C17 witness: on a coarse pointer, with a handleTick subscribed, commit()
\* invoked the action and the invocation resolved.
C17_Witness ==
    /\ sampler.coarse /\ subscribers # {} /\ history = << >>
    /\ ev.op = "resolve" /\ ev.from = "committed" /\ commitRet.p = ev.p
    /\ ~promises[ev.p].chained /\ promises[ev.p].state = "fulfilled"

\* C18: a tick that finds the status committed, whatever its score, leaves
\* status, result, shadow promise, grace timer and pending timers unchanged,
\* invokes nothing and aborts no signal.
C18_CommittedIgnoresTicks ==
    [][ (ev'.op = "tick" /\ statusRef = "committed") =>
          UNCHANGED << statusRef, status, result, shadowPromise, graceTimer,
                       abortController, timers, promises >> ]_vars

\* C18 witness: commit() returned the speculation in flight, then a tick with
\* a score below abortThreshold came; the action is still in flight, its signal
\* not aborted.
C18_Witness ==
    /\ ev.op = "tick" /\ ev.score < abortThreshold /\ ev.from = "committed"
    /\ statusRef = "committed" /\ shadowPromise # Null
    /\ commitRet.kind = "promise" /\ commitRet.p = shadowPromise
    /\ promises[shadowPromise].state = "pending" /\ ~promises[shadowPromise].aborted

\* The number of samples left after taking the trailing historySize samples
\* (relevantHistory.length), and whether the last sample lies within the
\* target, edges included.
WindowLen == Len(slice(history, config.historySize))
LastInside ==
    /\ history # << >>
    /\ history[Len(history)].x \in rect.left .. rect.right
    /\ history[Len(history)].y \in rect.top .. rect.bottom

C20_InsideScoresOne ==
    (intentScore # NoScore /\ LastInside) => intentScore = 1000

\* C20 (amended): for a history that holds at least 3 samples after taking the
\* trailing historySize samples and whose last sample lies within the target,
\* inclusive on all four edges, getIntentScore returns 1.0.
C20_InsideScoresOneGivenThree ==
    (intentScore # NoScore /\ LastInside /\ WindowLen >= 3) => intentScore = 1000

\* C20 witness: the last sample is the bottom right corner of the target, the
\* pointer has not moved over the late half and the call returned 1.0.
C20_Witness ==
    /\ intentScore = 1000 /\ Len(history) >= 3 /\ WindowLen >= 3
    /\ history[Len(history)].x = rect.right /\ history[Len(history)].y = rect.bottom
    /\ rect.width > 0
    /\ history[Len(history) - 1].x = rect.right
    /\ history[Len(history) - 1].y = rect.bottom

\* The last sample of the history, and whether it is farther from the centre of
\* the target than maxInfluenceDistance (compared on squares, in half pixels).
Last == history[Len(history)]
LastBeyondReach ==
    /\ history # << >>
    /\ LET dx2 == 2 * rect.left + rect.width - 2 * Last.x
           dy2 == 2 * rect.top + rect.height - 2 * Last.y
       IN  dx2 * dx2 + dy2 * dy2 >
             4 * config.maxInfluenceDistance * config.maxInfluenceDistance

\* C21 (as claimed): for every target, of any size, and every history whose
\* last sample is farther from the target's centre than maxInfluenceDistance,
\* getIntentScore returns 0.
C21_BeyondReachScoresZero ==
    (intentScore # NoScore /\ LastBeyondReach) => intentScore = 0

\* C21 (amended): for every target and every history whose last sample is
\* outside the target and farther from its centre than maxInfluenceDistance,
\* getIntentScore returns 0.
C21_OutsideBeyondReachScoresZero ==
    (intentScore # NoScore /\ LastBeyondReach /\ ~LastInside) => intentScore = 0

\* C21 witness: the pointer brakes on its way to the target of the tests, its
\* last sample 150 px from the centre with a reach of 140 px; the call returned 0.
C21_Witness ==
    /\ intentScore = 0 /\ LastBeyondReach /\ ~LastInside /\ WindowLen >= 3
    /\ config.maxInfluenceDistance = 140
    /\ history = Track(<< << 0, 250 >>, << 80, 250 >>, << 100, 250 >> >>)

\* The window the engine works on, and the dot product of its late-half
\* displacement (zero when no time elapsed over the late half) with the vector
\* from the last sample to the centre of the target (in half pixels): its sign
\* is the sign of the alignment.
Window == slice(history, config.historySize)
LateDot ==
    LET n == Len(Window)
        midPoint == Window[(n \div 2) + 1]
        dt2 == Window[n].timestamp - midPoint.timestamp
        bx == IF dt2 > 0 THEN Window[n].x - midPoint.x ELSE 0
        by == IF dt2 > 0 THEN Window[n].y - midPoint.y ELSE 0
    IN  bx * (2 * rect.left + rect.width - 2 * Window[n].x)
          + by * (2 * rect.top + rect.height - 2 * Window[n].y)

\* C22 (as claimed, for a last sample outside the target): for every history
\* whose late-half velocity does not point toward the centre of the target
\* (the dot product is zero or negative), getIntentScore returns 0.
C22_NotTowardScoresZero ==
    (intentScore # NoScore /\ history # << >> /\ ~LastInside /\ LateDot <= 0)
        => intentScore = 0

\* C23 (as claimed): whatever the target, the history and the non-negative
\* scoring parameters, the value getIntentScore returns is a number between 0
\* and 1.
C23_ScoreInUnitInterval ==
    intentScore # NoScore => intentScore \in 0 .. 1000

\* The history holds at least 3 samples that move by the same step over the
\* same positive time, straight at the centre of the target, at a speed of at
\* least noiseThreshold; its last sample is outside the target and within
\* maxInfluenceDistance of the centre.
SteadyApproach ==
    /\ Len(history) >= 3
    /\ history[2].timestamp > history[1].timestamp
    /\ \A i \in 2 .. Len(history) - 1 :
          /\ history[i + 1].x - history[i].x = history[2].x - history[1].x
          /\ history[i + 1].y - history[i].y = history[2].y - history[1].y
          /\ history[i + 1].timestamp - history[i].timestamp
                = history[2].timestamp - history[1].timestamp
    /\ LET vx == history[2].x - history[1].x
           vy == history[2].y - history[1].y
           dt == history[2].timestamp - history[1].timestamp
           dx2 == 2 * rect.left + rect.width - 2 * Last.x
           dy2 == 2 * rect.top + rect.height - 2 * Last.y
       IN  /\ vx * dy2 = vy * dx2
           /\ vx * dx2 + vy * dy2 > 0
           /\ 10000 * (vx * vx + vy * vy)
                >= config.noiseThreshold * config.noiseThreshold * dt * dt
    /\ ~LastInside
    /\ ~LastBeyondReach

\* 1 - d / maxInfluenceDistance for the last sample, in thousandths
DistanceFalloff ==
    LET d100 == Hypot100(2 * rect.left + rect.width - 2 * Last.x,
                         2 * rect.top + rect.height - 2 * Last.y)
    IN  ((200 * config.maxInfluenceDistance - d100) * 1000)
            \div (200 * config.maxInfluenceDistance)

\* The history of the test "detects strong intent when moving fast towards
\* target", with the target and the parameters of the tests.
StrongIntentTest ==
    /\ rect = DOMRect(200, 200, 100, 100)
    /\ config = DEFAULT_CONFIG
    /\ history = Track(<< << 0, 250 >>, << 50, 250 >>, << 100, 250 >> >>)

\* C24 (as claimed): a history of at least 3 samples in a steady approach
\* scores 1 - d / maxInfluenceDistance, with no deceleration bonus; and the
\* history of the test scores above 0.5.
C24_SteadyApproachScoresFalloff ==
    /\ (intentScore # NoScore /\ SteadyApproach) => intentScore = DistanceFalloff
    /\ (intentScore # NoScore /\ StrongIntentTest) => intentScore > 500

\* C24 (amended): the same for a history of which the trailing historySize
\* samples are at least 3.
C24_SteadyApproachInWindowScoresFalloff ==
    /\ (intentScore # NoScore /\ SteadyApproach /\ WindowLen >= 3)
          => intentScore = DistanceFalloff
    /\ (intentScore # NoScore /\ StrongIntentTest) => intentScore > 500

\* C24 witness: the diagonal approach of three samples that ends 150 px from
\* the centre, with the default reach of 800 px, scored 1 - 150/800.
C24_Witness ==
    /\ SteadyApproach /\ WindowLen >= 3 /\ config = DEFAULT_CONFIG
    /\ history = Approach(3, 3, << 30, 40 >>)
    /\ intentScore = 812 /\ intentScore = DistanceFalloff

----------------------------------------------------------------------------
(* The provider's buffer and its fan-out *)

LastN(seq, n) == SubSeq(seq, Len(seq) - n + 1, Len(seq))

Ordered(h) == \A i \in 1 .. Len(h) - 1 : h[i].timestamp <= h[i + 1].timestamp

\* a pointer move appended its sample and dropped at most the oldest entry
AppendedEvictingOldest ==
    LET sample == received'[Len(received')]
    IN  \/ history' = Append(history, sample)
        \/ history # << >> /\ history' = Append(Tail(history), sample)

\* C25: after any sequence of pointer moves the buffer holds at most
\* bufferSize samples and is, oldest first, the last min(n, bufferSize) of the
\* n samples received; its timestamps are in order; each move appends at the
\* end and evicts nothing but the oldest entry.
C25_BufferHoldsLatest ==
    /\ [](/\ Len(history) <= bufferSize
          /\ history = LastN(received, Min(Len(received), bufferSize))
          /\ Ordered(history))
    /\ [][received' # received => AppendedEvictingOldest]_vars

\* C25 witness: two moves came to a full buffer, the second at the timestamp
\* of the first, and the buffer starts at the third sample received.
C25_Witness ==
    /\ ev.op = "mousemove"
    /\ Len(received) = bufferSize + 2
    /\ Len(history) = bufferSize
    /\ history[1] = received[3]
    /\ history[bufferSize].timestamp = history[bufferSize - 1].timestamp

\* C26: a pass of the loop calls each callback that is registered when it
\* starts exactly once, all with the same history, and calls no other; once
\* its unsubscribe handle has been invoked a callback is not registered; and
\* subscribing changes the set of callbacks only, never the pointer listener
\* or the loop.
C26_LoopCallsRegisteredOnce ==
    /\ [][ev'.op = "loop" =>
             /\ DOMAIN delivered' = subscribers
             /\ \A callback \in subscribers : delivered'[callback] = << history >>]_vars
    /\ [](ev.op = "unsubscribe" => ev.p \notin subscribers)
    /\ [][ev'.op = "subscribe" =>
             /\ subscribers' = subscribers \cup {ev'.p}
             /\ sampler' = sampler]_vars
    /\ [](sampler = providerEffect(sampler.coarse))

\* C26 witness: the last pass called two callbacks with a buffer that was
\* not empty, and the handle of one of them has just been invoked.
C26_Witness ==
    /\ ev.op = "unsubscribe"
    /\ Cardinality(DOMAIN delivered) = 2
    /\ ev.p \in DOMAIN delivered
    /\ Cardinality(subscribers) = 1
    /\ \A callback \in DOMAIN delivered : delivered[callback] = << history >>
    /\ history # << >>

----------------------------------------------------------------------------
(* The controller, continued *)

InBand(score) == abortThreshold <= score /\ score <= sensitivity

\* C27: abortThreshold is below sensitivity for every sensitivity above 0, and
\* a tick with a score from abortThreshold to sensitivity, both included,
\* leaves the status, the invocations (none started, none aborted), the shadow
\* promise and the result as they are; outside ready it leaves the timer as
\* well, in ready it can only disarm it.
C27_HysteresisBandIsInert ==
    /\ [](\A sens \in 1 .. 1000 : (sens * AbortRatioTenths) \div 10 < sens)
    /\ [][(ev'.op = "tick" /\ InBand(ev'.score)) =>
             /\ statusRef' = statusRef
             /\ status' = status
             /\ promises' = promises
             /\ shadowPromise' = shadowPromise
             /\ abortController' = abortController
             /\ result' = result
             /\ timers' \subseteq timers
             /\ graceTimer' \in {graceTimer, Null}
             /\ statusRef # "ready" => (timers' = timers /\ graceTimer' = graceTimer)]_vars

\* C27 witness: a tick at exactly abortThreshold met a speculating controller;
\* it is speculating still and its action is in flight.
C27_Witness ==
    /\ ev.op = "tick"
    /\ ev.score = abortThreshold
    /\ ev.from = "speculating"
    /\ statusRef = "speculating"
    /\ shadowPromise \in Pending
    /\ abortController = shadowPromise

\* C28: the settlement of an invocation that is not the current shadow promise
\* changes neither the status, nor the cached result, nor the shadow promise.
C28_StaleSettlementIgnored ==
    [][(ev'.op \in {"resolve", "reject"} /\ ev'.p # shadowPromise) =>
          /\ statusRef' = statusRef
          /\ status' = status
          /\ result' = result
          /\ shadowPromise' = shadowPromise]_vars

\* C28 witness: a cancelled invocation has just resolved while a newer
\* speculation is in flight, which it still is.
C28_Witness ==
    /\ ev.op = "resolve"
    /\ ev.p \in cancelled
    /\ ev.from = "speculating"
    /\ statusRef = "speculating"
    /\ shadowPromise \in Pending
    /\ shadowPromise # ev.p
    /\ result = NullResult

\* C29: in ready at most one grace timer is pending; a tick below
\* abortThreshold that meets a pending timer neither arms a second one nor
\* restarts it, and one that meets none (the first of its decay) arms one, so
\* that the eviction comes gracePeriod after it; also after the registration
\* was cleaned up and set up again.
C29_OneGraceTimerFromFirstLowTick ==
    /\ [](statusRef = "ready" => Cardinality(timers) <= 1)
    /\ [][(ev'.op = "tick" /\ statusRef = "ready" /\ ev'.score < abortThreshold) =>
             IF timers # {}
             THEN timers' = timers /\ graceTimer' = graceTimer
             ELSE Cardinality(timers') = 1 /\ graceTimer' \in timers']_vars

\* C30: in every reachable state, idle has no shadow promise and a null result;
\* speculating has a shadow promise and the AbortController made for it; ready
\* has a shadow promise that is fulfilled, and the result is its value.
C30_StatusDeterminesRefs ==
    /\ status = statusRef
    /\ statusRef = "idle" => (shadowPromise = Null /\ result = NullResult)
    /\ statusRef = "speculating" =>
          (shadowPromise \in 1 .. Len(promises) /\ abortController = shadowPromise)
    /\ statusRef = "ready" =>
          /\ shadowPromise \in 1 .. Len(promises)
          /\ promises[shadowPromise].state = "fulfilled"
          /\ result = promises[shadowPromise].value

\* C30 witness: the second speculation of a data action is ready with its own
\* datum, after the first one was evicted by the grace timer.
C30_Witness ==
    /\ statusRef = "ready"
    /\ actionKind = "data"
    /\ shadowPromise = 2
    /\ promises[1].state = "fulfilled"
    /\ result = ResolvedValue("data", 2)
    /\ result # ResolvedValue("data", 1)
    /\ cancelled = {}

----------------------------------------------------------------------------
(* The engine's window *)

\* the last n samples of h, all of h if it holds fewer
Trailing(h, n) == IF n >= Len(h) THEN h ELSE SubSeq(h, Len(h) - n + 1, Len(h))

\* the history the call was given, with some of its oldest samples left out
Suffixes(h) == { SubSeq(h, k, Len(h)) : k \in 1 .. Len(h) + 1 }

\* C31: the score depends on the trailing historySize samples only: a history
\* with the same last historySize samples as the one given gets the same
\* score, whatever historySize is; the call leaves the history as it is, and
\* the same inputs give the same score.
C31_ScoreDependsOnTrailingWindow ==
    /\ [](intentScore # NoScore =>
            /\ intentScore = getIntentScore(config, rect, history)
            /\ \A other \in Suffixes(history) :
                  Trailing(other, config.historySize)
                      = Trailing(history, config.historySize)
                  => getIntentScore(config, rect, other) = intentScore)
    /\ [][history' = history]_vars

====
